---- MODULE Spec2Model ----
(* Model of GoogleImage (src/GoogleDL.py): one downloader session driving a  *)
(* selenium webdriver.  Strings are sequences of one-character strings so    *)
(* that formatting, path joining and extension splitting are computed.       *)
EXTENDS Integers, Sequences, FiniteSets, TLC

(* ---------------------------------------------------------------- bounds *)
MaxThumbs == 2
MaxCalls == 2

(* ------------------------------------------------------- python's None   *)
None == <<"N","o","n","e","!">>

(* ------------------------------------------------------------- strings   *)
DigitChar == <<"0","1","2","3","4","5","6","7","8","9">>

RECURSIVE Str(_)
Str(n) == IF n < 10 THEN <<DigitChar[n + 1]>>
          ELSE Str(n \div 10) \o <<DigitChar[(n % 10) + 1]>>

Zeros(k) == [j \in 1..k |-> "0"]

FormatZeroPad(n, w) ==
    LET s == Str(n)
    IN  IF Len(s) >= w THEN s ELSE Zeros(w - Len(s)) \o s

RFind(s, c) ==
    LET hits == {j \in 1..Len(s) : s[j] = c}
    IN  IF hits = {} THEN 0 ELSE CHOOSE j \in hits : \A k \in hits : k <= j

Contains(s, sub) ==
    \E j \in 0..(Len(s) - Len(sub)) : SubSeq(s, j + 1, j + Len(sub)) = sub

basename(p) == SubSeq(p, RFind(p, "/") + 1, Len(p))

splitext(p) ==
    LET sepIndex == RFind(p, "/")
        dotIndex == RFind(p, ".")
    IN  IF dotIndex > sepIndex
           /\ \E k \in (sepIndex + 1)..(dotIndex - 1) : p[k] # "."
        THEN <<SubSeq(p, 1, dotIndex - 1), SubSeq(p, dotIndex, Len(p))>>
        ELSE <<p, <<>> >>

path_join(a, b) ==
    IF Len(b) > 0 /\ b[1] = "/" THEN b
    ELSE IF Len(a) = 0 \/ a[Len(a)] = "/" THEN a \o b
    ELSE a \o <<"/">> \o b

(* ------------------------------------------------------- input domains   *)
Http == <<"h","t","t","p",":","/","/">>
LinkJpg == Http \o <<"h","/","a",".","j","p","g">>
LinkPng == Http \o <<"h","/","a",".","p","n","g">>
LinkJpeg == Http \o <<"h","/","a",".","j","p","e","g">>
LinkWebp == Http \o <<"h","/","a",".","w","e","b","p">>
LinkNoExt == Http \o <<"h",".","i","o","/","a">>
LinkQuery == Http \o <<"h","/","a",".","j","p","g","?","w","=","1">>
LinkDotFile == Http \o <<"h","/",".","p","n","g">>
LinkUpper == Http \o <<"h","/","a",".","J","P","G">>
LinkSlash == Http \o <<"h","/","a",".","p","n","g","/">>
Links == {LinkJpg, LinkPng, LinkJpeg, LinkWebp, LinkNoExt, LinkQuery,
          LinkDotFile, LinkUpper, LinkSlash}
DataUri == <<"d","a","t","a",":","x">>
PanelLinks == {LinkJpg, LinkWebp}
Panels == {<< >>, <<DataUri>>} \cup {<<DataUri, l>> : l \in PanelLinks}

ExtPng == <<".","p","n","g">>
ExtGif == <<".","g","i","f">>
ExtDefaults == {ExtPng, ExtGif}
Requests == {<<"q">>}
Names == {None, <<"n">>}
Directories == {None, <<"d">>}
NImages == {1, 10}
NImagesFetch == {1, 2, 10}
AdClass == "dPO1Qe gadasb"
ThumbClasses == {"rg_i", AdClass}
Absent == [present |-> FALSE, height |-> 0, width |-> 0]
MoreStates == {Absent} \cup [present : {TRUE}, height : {0, 1}, width : {1}]

SeqsUpTo(S, n) == UNION {[1..k -> S] : k \in 0..n}

(* ------------------------------------------------------------ state      *)
VARIABLES
    verbose, ext_default, close_after_download, make_dir,  \* constructor
    all_files, name, n_images,                             \* self.*
    driver_open, height, thumbs, more, panel, served,      \* browser
    disk,                                                  \* file system
    pc, n_downloads, n_unload, n_str, last_height, new_height,
    all_img, idx, link, directory,                         \* download()
    last_op, n_close, stalled, outcome, error, calls, prev_total,
    fetch_result, last_file, op_on_closed, args,           \* observations
    dirs, opens                                            \* file system

config == <<verbose, ext_default, close_after_download, make_dir>>
self == <<all_files, name, n_images>>
page == <<height, thumbs, more, panel>>
locals == <<n_unload, n_str, last_height, new_height, all_img, idx, link,
            directory>>
vars == <<config, self, page, served, driver_open, disk, pc, n_downloads,
          locals, last_op, n_close, stalled, outcome, error, calls,
          prev_total, fetch_result, last_file, op_on_closed, args, dirs, opens>>

Init ==
    /\ verbose \in BOOLEAN
    /\ ext_default \in ExtDefaults
    /\ close_after_download \in BOOLEAN
    /\ make_dir \in BOOLEAN
    /\ all_files = << >>
    /\ name = None
    /\ n_images = 0
    /\ driver_open = TRUE
    /\ height = 0
    /\ thumbs = << >>
    /\ more = Absent
    /\ panel = << >>
    /\ served = 0
    /\ disk = {}
    /\ pc = "idle"
    /\ n_downloads = 0
    /\ n_unload = 0
    /\ n_str = 0
    /\ last_height = 0
    /\ new_height = 0
    /\ all_img = << >>
    /\ idx = 0
    /\ link = None
    /\ directory = None
    /\ last_op = << >>
    /\ n_close = 0
    /\ stalled = FALSE
    /\ outcome = "none"
    /\ error = "none"
    /\ calls = 0
    /\ prev_total = 0
    /\ fetch_result = "none"
    /\ last_file = None
    /\ op_on_closed = FALSE
    /\ args = [request |-> None, name |-> None, directory |-> None]
    /\ dirs = {}
    /\ opens = << >>

(* ------------------------------------------------- helpers of the class  *)
VALID_EXTENTION == {<<".","p","n","g">>, <<".","j","p","g">>, <<".","j","p","e","g">>}

file_ext_dot_only(lnk, ext_dflt) ==
    LET ext == splitext(basename(lnk))[2]
    IN  IF ext = << >> THEN ext_dflt ELSE ext

file_ext(lnk, ext_dflt) ==
    LET ext == splitext(basename(lnk))[2]
    IN  IF ext \notin VALID_EXTENTION THEN ext_dflt ELSE ext

create_path_name_flat(dir, mk_dir, nm) ==
    IF mk_dir THEN (IF dir = None THEN << >> ELSE dir) ELSE None

create_path_name(dir, mk_dir, nm) ==
    IF mk_dir THEN path_join(IF dir = None THEN << >> ELSE dir, nm) ELSE None

file_path(lnk, dir, ext_dflt, nm_img, mk_dir, nm) ==
    LET fname == nm_img \o file_ext(lnk, ext_dflt)
        path == create_path_name(dir, mk_dir, nm)
    IN  IF path # None THEN path_join(path, fname) ELSE fname

name_img_by_position(nm, n_dl, width) ==
    nm \o <<"_">> \o FormatZeroPad(idx - 1, width)

name_img(nm, n_dl, width) == nm \o <<"_">> \o FormatZeroPad(n_dl, width)

verify_image_any(element) == "True"

verify_image(element) == IF element # AdClass THEN "True" ELSE "None"

select_http(markup) == SelectSeq(markup, LAMBDA src : Contains(src, <<"h","t","t","p">>))

Min(a, b) == IF a < b THEN a ELSE b

shown(found, n, verb) ==
    IF verb THEN SubSeq(found, 1, Min(n, Len(found))) ELSE found

visible_either(actualise) == actualise.height > 0 \/ actualise.width > 0

visible(actualise) == actualise.height > 0 /\ actualise.width > 0

more_needed_strict(count, n) == count < n

more_needed(count, n) == ~(count > n)


(* lines 150-168: the returned path, or None when the fetch or write fails *)
download_img_unguarded(lnk, dir, ext_dflt, nm_img, mk_dir, nm, io) ==
    IF Contains(lnk, <<"h","t","t","p">>) /\ io \in {"ok", "get_fail"}
    THEN file_path(lnk, dir, ext_dflt, nm_img, mk_dir, nm)
    ELSE None

download_img(lnk, dir, ext_dflt, nm_img, mk_dir, nm, io) ==
    IF Contains(lnk, <<"h","t","t","p">>)
    THEN IF io = "ok" THEN file_path(lnk, dir, ext_dflt, nm_img, mk_dir, nm)
         ELSE None
    ELSE None

(* open(file, "wb") creates or truncates the file before the bytes arrive *)
opened_file(lnk, dir, ext_dflt, nm_img, mk_dir, nm, io) ==
    IF Contains(lnk, <<"h","t","t","p">>) /\ io \in {"ok", "get_fail"}
    THEN {file_path(lnk, dir, ext_dflt, nm_img, mk_dir, nm)}
    ELSE {}

(* lines 114-116: only a returned path is counted and recorded *)
counted(n_dl, file) == IF file # None THEN n_dl + 1 ELSE n_dl

recorded_always(files, file) == Append(files, file)

recorded(files, file) == IF file # None THEN Append(files, file) ELSE files

(* line 122 *)
should_close_when_full(close_flag) == close_flag /\ n_downloads = n_images

should_close(close_flag) == close_flag

(* line 87: the for loop hands out the thumbnails one after the other *)
next_idx_retry(i) == IF pc = "fetch" THEN i ELSE i + 1

next_idx(i) == i + 1

(* lines 178-179: Path(path).mkdir(parents=True, exist_ok=True) *)
created_dirs(path) ==
    IF path = None THEN {}
    ELSE {SubSeq(path, 1, j) : j \in {k \in 1..Len(path) :
                                        k = Len(path) \/ path[k + 1] = "/"}}

IoOutcomes(mk_dir) ==
    {"ok", "open_fail", "get_fail"} \cup (IF mk_dir THEN {"mkdir_fail"} ELSE {})

(* ------------------------------------------------------------- browser   *)
(* the document may load one more thumbnail, growing the scroll height;     *)
(* the browser serves at most MaxThumbs thumbnails over the session         *)
Grows ==
    \/ UNCHANGED <<height, thumbs, served>>
    \/ /\ served < MaxThumbs
       /\ height' = height + 1
       /\ served' = served + 1
       /\ \E c \in ThumbClasses : thumbs' = Append(thumbs, c)

(* the frame of download() is gone once it returns or raises; the document  *)
(* is described only while a download() is using it; opens, the paths the   *)
(* call opened for writing, is kept until the next call starts              *)
Leave ==
    /\ n_unload' = 0
    /\ n_str' = 0
    /\ last_height' = 0
    /\ new_height' = 0
    /\ all_img' = << >>
    /\ idx' = 0
    /\ link' = None
    /\ directory' = None
    /\ height' = 0
    /\ thumbs' = << >>
    /\ more' = Absent
    /\ panel' = << >>
    /\ fetch_result' = "none"
    /\ last_file' = None
    /\ pc' = "idle"

(* ------------------------------------------------------------ download() *)
(* lines 70-81 and 126-127: reset the counters, navigate, first height read *)
DownloadStart ==
    \E request \in Requests, n \in NImages, dir \in {None}, nm \in Names :
        /\ pc = "idle"
        /\ calls < MaxCalls
        /\ calls' = calls + 1
        /\ prev_total' = prev_total + n_downloads
        /\ n_downloads' = 0
        /\ n_close' = 0
        /\ stalled' = FALSE
        /\ opens' = << >>
        /\ UNCHANGED <<config, all_files, disk, dirs, driver_open, n_unload,
                       new_height, all_img, idx, link, panel, fetch_result,
                       last_file>>
        /\ IF ~driver_open
           THEN /\ last_op' = <<"get">>
                /\ op_on_closed' = TRUE
                /\ outcome' = "raised"
                /\ error' = "closed"
                /\ UNCHANGED <<name, n_images, height, thumbs, more, served,
                               pc, n_str, last_height, directory, args>>
           ELSE /\ \E k \in 0..(MaxThumbs - served) :
                      /\ thumbs' \in [1..k -> ThumbClasses]
                      /\ served' = served + k
                /\ height' = Len(thumbs') + 1
                /\ more' \in MoreStates
                /\ args' = [request |-> request, name |-> nm,
                            directory |-> dir]
                /\ name' = IF nm = None THEN request ELSE nm
                /\ n_images' = n
                /\ n_str' = Len(Str(n))
                /\ directory' = dir
                /\ last_height' = height'
                /\ last_op' = <<"get", "read_height">>
                /\ outcome' = "running"
                /\ error' = "none"
                /\ pc' = "scroll"
                /\ UNCHANGED op_on_closed

(* lines 130-134: scroll to the bottom, wait, read the height again *)
ScrollStep ==
    /\ pc = "scroll"
    /\ Grows
    /\ new_height' = height'
    /\ last_op' = <<"scroll", "read_height">>
    /\ pc' = "check"
    /\ UNCHANGED <<config, self, more, panel, driver_open, disk,
                   n_downloads, n_unload, n_str, last_height, all_img, idx,
                   link, directory, n_close, stalled, outcome, error, calls,
                   prev_total, fetch_result, last_file, op_on_closed, args, dirs, opens>>

(* lines 135-143: the load-more control and the two exits of the loop *)
ScrollCheck ==
    /\ pc = "check"
    /\ UNCHANGED <<config, self, driver_open, disk, n_downloads, n_close,
                   calls, prev_total, op_on_closed, args, dirs, opens>>
    /\ stalled' = (stalled \/ (new_height = last_height
                                /\ ~(more.present /\ more.height > 0
                                     /\ more.width > 0)))
    /\ IF new_height = last_height
       THEN IF ~more.present
            THEN /\ last_op' = <<"find_more">>
                 /\ outcome' = "raised"
                 /\ error' = "NoSuchElementException"
                 /\ Leave
                 /\ UNCHANGED served
            ELSE IF visible(more)
            THEN /\ Grows
                 /\ more' \in {more, [more EXCEPT !.height = 0]}
                 /\ last_op' = <<"find_more", "click_more", "count_thumbs">>
                 /\ last_height' = new_height
                 /\ pc' = IF more_needed(Len(thumbs'), n_images)
                          THEN "scroll" ELSE "enum"
                 /\ UNCHANGED <<outcome, error, panel, n_unload,
                                n_str, new_height, all_img, idx, link,
                                directory, fetch_result, last_file>>
            ELSE /\ last_op' = <<"find_more">>
                 /\ pc' = "enum"
                 /\ UNCHANGED <<page, served, last_height, outcome, error,
                                n_unload, n_str, new_height, all_img, idx,
                                link, directory, fetch_result, last_file>>
       ELSE /\ last_op' = <<"count_thumbs">>
            /\ last_height' = new_height
            /\ pc' = IF more_needed(Len(thumbs), n_images)
                     THEN "scroll" ELSE "enum"
            /\ UNCHANGED <<page, served, outcome, error, n_unload,
                           n_str, new_height, all_img, idx, link, directory,
                           fetch_result, last_file>>

Enumerate_then_scroll ==
    /\ pc = "enum"
    /\ all_img' = shown(thumbs, n_images, verbose)
    /\ idx' = 1
    /\ last_op' = <<"find_thumbs">>
    /\ pc' = IF Len(all_img') < n_images THEN "scroll" ELSE "loop"
    /\ UNCHANGED <<config, self, page, served, driver_open, disk, n_downloads,
                   n_unload, n_str, last_height, new_height, link, directory,
                   n_close, stalled, outcome, error, calls, prev_total,
                   fetch_result, last_file, op_on_closed, args, dirs, opens>>

(* lines 82-85: enumerate the thumbnails, wrapped in tqdm when verbose *)
Enumerate ==
    /\ pc = "enum"
    /\ all_img' = shown(thumbs, n_images, verbose)
    /\ idx' = 1
    /\ last_op' = <<"find_thumbs">>
    /\ pc' = "loop"
    /\ UNCHANGED <<config, self, page, served, driver_open, disk, n_downloads,
                   n_unload, n_str, last_height, new_height, link, directory,
                   n_close, stalled, outcome, error, calls, prev_total,
                   fetch_result, last_file, op_on_closed, args, dirs, opens>>

(* lines 87-94: verify the next thumbnail, click it or skip it *)
LoopStep ==
    /\ pc = "loop"
    /\ idx <= Len(all_img)
    /\ UNCHANGED <<config, self, height, thumbs, more, served, driver_open,
                   disk, n_downloads, n_str, last_height, new_height, all_img,
                   link, directory, n_close, stalled, outcome, error, calls,
                   prev_total, fetch_result, last_file, op_on_closed, args, dirs, opens>>
    /\ IF verify_image(all_img[idx]) = "True"
       THEN /\ panel' \in Panels
            /\ last_op' = <<"click_thumb">>
            /\ pc' = "panel"
            /\ UNCHANGED <<idx, n_unload>>
       ELSE /\ n_unload' = IF verbose THEN n_unload + 1 ELSE n_unload
            /\ idx' = next_idx(idx)
            /\ last_op' = << >>
            /\ pc' = "loop"
            /\ UNCHANGED panel

(* lines 95-107: read the detail panel and take the first http source *)
PanelStep ==
    /\ pc = "panel"
    /\ last_op' = <<"find_panel">>
    /\ UNCHANGED <<config, self, page, served, driver_open, disk, n_downloads,
                   n_str, last_height, new_height, all_img, directory,
                   n_close, stalled, outcome, error, calls, prev_total,
                   fetch_result, last_file, op_on_closed, args, dirs, opens>>
    /\ LET balise_link == select_http(panel)
       IN  IF Len(balise_link) < 1
           THEN /\ n_unload' = IF verbose THEN n_unload + 1 ELSE n_unload
                /\ idx' = next_idx(idx)
                /\ pc' = "loop"
                /\ UNCHANGED link
           ELSE /\ link' = balise_link[1]
                /\ pc' = "fetch"
                /\ UNCHANGED <<idx, n_unload>>

(* lines 108-120: name the image, download it, count it *)
FetchStep ==
    \E io \in IoOutcomes(make_dir) :
        /\ pc = "fetch"
        /\ last_op' = << >>
        /\ UNCHANGED <<config, name, n_images, served, driver_open, n_close,
                       stalled, calls, prev_total, op_on_closed, args>>
        /\ IF io = "mkdir_fail"
           THEN /\ outcome' = "raised"
                /\ error' = "OSError"
                /\ Leave
                /\ UNCHANGED <<all_files, disk, n_downloads, dirs, opens>>
           ELSE LET nimg == name_img(name, n_downloads, n_str)
                    file == download_img(link, directory, ext_default, nimg,
                                         make_dir, name, io)
                    wrote == opened_file(link, directory, ext_default, nimg,
                                         make_dir, name, io)
                IN  /\ dirs' = dirs \cup created_dirs(
                                   create_path_name(directory, make_dir, name))
                    /\ disk' = disk \cup wrote
                    /\ opens' = IF wrote = {} THEN opens
                                ELSE Append(opens, CHOOSE f \in wrote : TRUE)
                    /\ fetch_result' = io
                    /\ last_file' = file
                    /\ n_downloads' = counted(n_downloads, file)
                    /\ all_files' = recorded(all_files, file)
                    /\ n_unload' = IF verbose /\ file = None
                                   THEN n_unload + 1 ELSE n_unload
                    /\ idx' = next_idx(idx)
                    /\ pc' = "loop"
                    /\ UNCHANGED <<page, n_str, last_height, new_height,
                                   all_img, link, directory, outcome, error>>

(* lines 122-123: after the loop, close the driver when configured *)
Finish ==
    /\ pc = "loop"
    /\ idx > Len(all_img)
    /\ IF should_close(close_after_download)
       THEN /\ driver_open' = FALSE
            /\ n_close' = n_close + 1
            /\ last_op' = <<"close">>
       ELSE /\ last_op' = << >>
            /\ UNCHANGED <<driver_open, n_close>>
    /\ outcome' = "returned"
    /\ Leave
    /\ UNCHANGED <<config, self, served, disk, n_downloads, stalled, error,
                   calls, prev_total, op_on_closed, args, dirs, opens>>

(* lines 53-55: close() called by the user between downloads *)
Close ==
    /\ pc = "idle"
    /\ IF driver_open
       THEN driver_open' = FALSE /\ UNCHANGED op_on_closed
       ELSE op_on_closed' = TRUE /\ UNCHANGED driver_open
    /\ UNCHANGED <<config, self, page, served, disk, pc, n_downloads, locals,
                   last_op, n_close, stalled, outcome, error, calls,
                   prev_total, fetch_result, last_file, args, dirs, opens>>

Next ==
    \/ DownloadStart
    \/ ScrollStep
    \/ ScrollCheck
    \/ Enumerate
    \/ LoopStep
    \/ PanelStep
    \/ FetchStep
    \/ Finish
    \/ Close

Spec == Init /\ [][Next]_vars

TypeOK ==
    /\ pc \in {"idle", "scroll", "check", "enum", "loop", "panel", "fetch"}
    /\ outcome \in {"none", "running", "returned", "raised"}
    /\ n_downloads \in Nat
    /\ Len(thumbs) <= MaxThumbs

(* ------------------------------------------- _download_img on its own    *)
(* download() stands at line 108 with a resolved link for the first         *)
(* thumbnail; links, names, directories and extensions range widely         *)
InitFetch ==
    /\ verbose \in BOOLEAN
    /\ ext_default \in ExtDefaults
    /\ close_after_download \in BOOLEAN
    /\ make_dir \in BOOLEAN
    /\ all_files = << >>
    /\ args \in [request : Requests, name : Names, directory : Directories]
    /\ name = IF args.name = None THEN args.request ELSE args.name
    /\ n_images \in NImagesFetch
    /\ driver_open = TRUE
    /\ thumbs = <<"rg_i", "rg_i">>
    /\ height = 3
    /\ more = [present |-> TRUE, height |-> 0, width |-> 1]
    /\ link \in Links
    /\ panel = <<DataUri, link>>
    /\ served = 2
    /\ disk = {}
    /\ pc = "fetch"
    /\ n_downloads = 0
    /\ n_unload = 0
    /\ n_str = Len(Str(n_images))
    /\ last_height = 3
    /\ new_height = 3
    /\ all_img = shown(thumbs, n_images, verbose)
    /\ idx = 1
    /\ directory = args.directory
    /\ last_op = <<"find_panel">>
    /\ n_close = 0
    /\ stalled = TRUE
    /\ outcome = "running"
    /\ error = "none"
    /\ calls = 1
    /\ prev_total = 0
    /\ fetch_result = "none"
    /\ last_file = None
    /\ op_on_closed = FALSE
    /\ dirs = {}
    /\ opens = << >>

NextFetch ==
    \/ FetchStep
    \/ LoopStep
    \/ PanelStep
    \/ Finish

SpecFetch == InitFetch /\ [][NextFetch]_vars

(* the interpreter runs the body of the while True loop of _scroll to its   *)
(* end: a scroll or a loop test that is due is eventually executed          *)
SpecFair == Spec /\ WF_vars(ScrollStep) /\ WF_vars(ScrollCheck)

(* ---------------------------------------------------------- properties   *)
EndsWith(s, suf) ==
    Len(s) >= Len(suf) /\ SubSeq(s, Len(s) - Len(suf) + 1, Len(s)) = suf

IsDigit(c) == \E d \in 1..10 : DigitChar[d] = c

DigitOf(c) == (CHOOSE d \in 1..10 : DigitChar[d] = c) - 1

RECURSIVE ValueOf(_)
ValueOf(ds) ==
    IF Len(ds) = 0 THEN 0
    ELSE 10 * ValueOf(SubSeq(ds, 1, Len(ds) - 1)) + DigitOf(ds[Len(ds)])

DigitCount(n) == CHOOSE w \in 1..6 : n < 10 ^ w /\ (w = 1 \/ n >= 10 ^ (w - 1))

Larger(a, b) == IF a > b THEN a ELSE b

(* the file name without its directories and without its extension *)
StemOf(f) ==
    LET fb == SubSeq(f, RFind(f, "/") + 1, Len(f))
    IN  SubSeq(fb, 1, RFind(fb, ".") - 1)

(* the extension a URL ends in: from a dot of its last component that is    *)
(* followed by no dot and preceded, in that component, by a non-dot         *)
UrlExt(u) ==
    LET dots == {d \in 1..Len(u) :
                    /\ u[d] = "."
                    /\ \A j \in (d + 1)..Len(u) : u[j] \notin {".", "/"}
                    /\ \E j \in 1..(d - 1) :
                          /\ u[j] # "."
                          /\ \A m \in j..(d - 1) : u[m] # "/"}
    IN  IF dots = {} THEN << >>
        ELSE LET d == CHOOSE x \in dots : TRUE IN SubSeq(u, d, Len(u))

Accepted == {<<".","p","n","g">>, <<".","j","p","g">>, <<".","j","p","e","g">>}

WithoutQuery(u) ==
    LET qs == {j \in 1..Len(u) : u[j] = "?"}
    IN  IF qs = {} THEN u
        ELSE SubSeq(u, 1, (CHOOSE j \in qs : \A k \in qs : j <= k) - 1)

SavedWith(f, ext) ==
    /\ EndsWith(f, ext)
    /\ Len(f) > Len(ext)
    /\ IsDigit(f[Len(f) - Len(ext)])

(* C1: the success counter of a download() call never exceeds n_images, and *)
(* no thumbnail is clicked, read or fetched once the target is reached.     *)
C1_CounterWithinTarget ==
    /\ n_downloads <= n_images
    /\ pc \in {"panel", "fetch"} => n_downloads < n_images

(* C2 as stated: at every point during and after any download() call the    *)
(* length of all_files equals that call's success counter.                  *)
C2_LenEqualsCallCounter == Len(all_files) = n_downloads

(* C2: all_files accumulates over the session: its length is the number of  *)
(* records of the earlier download() calls plus this call's success counter *)
(* (so it equals the counter throughout the first call).                    *)
C2_LenIsEarlierPlusCounter ==
    /\ Len(all_files) = prev_total + n_downloads
    /\ calls <= 1 => Len(all_files) = n_downloads

C2_Witness == calls = 2 /\ prev_total >= 1 /\ n_downloads >= 1

(* C3: the k-th record of a call (k = 0, 1, ...) has the stem               *)
(* base_<k zero-padded to the digit count of n_images>, base being the name *)
(* argument or else the request: indices are consecutive from 0 in the      *)
(* order of appending, whatever was skipped in between.                     *)
C3_StemIsBaseAndIndex ==
    \A k \in 0..(n_downloads - 1) :
        LET stem == StemOf(all_files[prev_total + k + 1])
            base == IF args.name = None THEN args.request ELSE args.name
            ds == SubSeq(stem, Len(base) + 2, Len(stem))
        IN  /\ SubSeq(stem, 1, Len(base) + 1) = base \o <<"_">>
            /\ \A j \in 1..Len(ds) : IsDigit(ds[j])
            /\ ValueOf(ds) = k
            /\ Len(ds) = Larger(DigitCount(n_images), DigitCount(k))

C3_Witness ==
    /\ pc = "loop"
    /\ idx = 3
    /\ n_downloads = 1
    /\ last_file # None
    /\ n_images = 10

(* C4: a thumbnail carrying the sponsored marker is only ever skipped: the  *)
(* step that handles it issues no click, no panel read and no fetch, leaves *)
(* all_files and the counter alone and moves on to the next thumbnail.      *)
C4_AdOnlySkipped ==
    [][(pc = "loop" /\ idx <= Len(all_img) /\ all_img[idx] = AdClass)
        => /\ pc' = "loop"
           /\ idx' = idx + 1
           /\ last_op' = << >>
           /\ all_files' = all_files
           /\ n_downloads' = n_downloads
           /\ disk' = disk
           /\ outcome' = outcome]_vars

C4_Witness ==
    /\ pc = "loop"
    /\ Len(all_img) = 2
    /\ idx = 2
    /\ all_img[1] = AdClass

(* C5: when the height read after a scroll equals the previous one and the  *)
(* load-more control is absent or has zero size, the call raises no error.  *)
C5_StallRaisesNothing ==
    stalled => error # "NoSuchElementException"

(* C6: once two consecutive height reads are equal and no load-more control *)
(* is visible, the call executes no further scroll and no load-more click.  *)
C6_NoScrollAfterStall ==
    stalled => \A j \in 1..Len(last_op) :
                   last_op[j] \notin {"scroll", "click_more"}

C6_Witness == stalled /\ pc = "fetch"

(* C7: with close_after_download a call that finishes its thumbnail loop    *)
(* closes the handle exactly once, as its last driver operation, however    *)
(* few images it got; without the flag download() never closes it.          *)
C7_ClosedOnceAtEnd ==
    /\ pc # "idle" => n_close = 0
    /\ ~close_after_download => n_close = 0
    /\ (pc = "idle" /\ outcome = "returned" /\ close_after_download)
           => n_close = 1 /\ last_op = <<"close">> /\ ~driver_open

C7_Witness ==
    /\ pc = "idle"
    /\ outcome = "returned"
    /\ close_after_download
    /\ n_close = 1
    /\ n_downloads < n_images

(* C8: a failing fetch-and-write is not propagated, changes neither the     *)
(* counter nor all_files and is followed by the next thumbnail; a           *)
(* successful one adds exactly one to the counter and appends exactly its   *)
(* path; an ad skip and a missing-preview skip are recovered the same way.  *)
C8_FailuresAreSkips ==
    [][/\ (pc = "fetch" /\ pc' # "fetch"
              /\ fetch_result' \in {"open_fail", "get_fail"})
          => /\ n_downloads' = n_downloads
             /\ all_files' = all_files
             /\ outcome' = "running"
             /\ pc' = "loop"
             /\ idx' = idx + 1
       /\ (pc = "fetch" /\ pc' # "fetch" /\ fetch_result' = "ok")
          => /\ n_downloads' = n_downloads + 1
             /\ last_file' # None
             /\ all_files' = Append(all_files, last_file')
             /\ outcome' = "running"
             /\ pc' = "loop"
             /\ idx' = idx + 1
       /\ (pc \in {"loop", "panel"} /\ pc' = "loop")
          => /\ n_downloads' = n_downloads
             /\ all_files' = all_files
             /\ outcome' = "running"
             /\ idx' = idx + 1]_vars

C8_Witness ==
    /\ pc = "loop"
    /\ fetch_result \in {"open_fail", "get_fail"}
    /\ outcome = "running"
    /\ Len(all_img) = 2
    /\ idx = 2

C10_QueryStringStripped ==
    (pc = "loop" /\ fetch_result = "ok"
        /\ UrlExt(WithoutQuery(link)) \in Accepted)
        => SavedWith(last_file, UrlExt(WithoutQuery(link)))

(* the components of a path, separators and empty components dropped *)
RECURSIVE Split(_)
Split(s) ==
    IF Len(s) = 0 THEN << >>
    ELSE LET cut == IF \E j \in 1..Len(s) : s[j] = "/"
                    THEN CHOOSE j \in 1..Len(s) :
                             s[j] = "/" /\ \A k \in 1..(j - 1) : s[k] # "/"
                    ELSE Len(s) + 1
             rest == Split(SubSeq(s, cut + 1, Len(s)))
         IN  IF cut = 1 THEN rest ELSE <<SubSeq(s, 1, cut - 1)>> \o rest

Ancestors(f) == {SubSeq(f, 1, j - 1) : j \in {k \in 2..Len(f) : f[k] = "/"}}

BaseName == IF args.name = None THEN args.request ELSE args.name

(* C11: with make_dir every record is directory/base_name/filename (no      *)
(* directory part when directory is None) and every directory above an      *)
(* opened file has been created; without make_dir records are bare file     *)
(* names and no directory is created.  Two .jpg downloads of request q with *)
(* n_images = 2 under d give d/q/q_0.jpg and d/q/q_1.jpg, and the browser   *)
(* is closed after a call that returns with close_after_download.           *)
C11_RecordPaths ==
    /\ \A i \in (prev_total + 1)..Len(all_files) :
          LET f == all_files[i]
              comps == Split(f)
              dcomps == IF args.directory = None THEN << >>
                        ELSE Split(args.directory)
          IN  IF make_dir
              THEN /\ Len(comps) = Len(dcomps) + 2
                   /\ SubSeq(comps, 1, Len(dcomps)) = dcomps
                   /\ comps[Len(dcomps) + 1] = BaseName
                   /\ SubSeq(comps[Len(comps)], 1, Len(BaseName) + 1)
                          = BaseName \o <<"_">>
                   /\ f[1] # "/"
              ELSE \A j \in 1..Len(f) : f[j] # "/"
    /\ \A f \in disk : make_dir => (Ancestors(f) # {} /\ Ancestors(f) \subseteq dirs)
    /\ ~make_dir => dirs = {}
    /\ (/\ make_dir
        /\ args = [request |-> <<"q">>, name |-> None, directory |-> <<"d">>]
        /\ n_images = 2
        /\ Len(all_files) = 2
        /\ \A i \in 1..2 : EndsWith(all_files[i], <<".","j","p","g">>))
       => all_files = << <<"d","/","q","/","q","_","0",".","j","p","g">>,
                         <<"d","/","q","/","q","_","1",".","j","p","g">> >>
    /\ (pc = "idle" /\ outcome = "returned" /\ close_after_download)
       => ~driver_open

C11_Witness ==
    /\ all_files = << <<"d","/","q","/","q","_","0",".","j","p","g">>,
                      <<"d","/","q","/","q","_","1",".","j","p","g">> >>
    /\ <<"d","/","q">> \in dirs
    /\ pc = "idle"
    /\ ~driver_open

(* C12: a thumbnail goes Pending -> SkippedAd, Pending -> Clicked ->        *)
(* SkippedNoPreview, or Pending -> Clicked -> Resolved -> downloaded or     *)
(* skipped; nothing is retried, the list is walked in order one index at a  *)
(* time, and after a skip the next step handles the next thumbnail.  (An    *)
(* error raised outside the try block ends the call instead.)               *)
C12_ThumbnailTransitions ==
    [][/\ (pc = "loop" /\ idx <= Len(all_img))
          => \/ pc' = "panel" /\ idx' = idx /\ last_op' = <<"click_thumb">>
             \/ pc' = "loop" /\ idx' = idx + 1 /\ last_op' = << >>
       /\ (pc = "loop" /\ idx > Len(all_img)) => pc' = "idle"
       /\ pc = "panel"
          => \/ pc' = "fetch" /\ idx' = idx /\ last_op' = <<"find_panel">>
             \/ pc' = "loop" /\ idx' = idx + 1 /\ last_op' = <<"find_panel">>
       /\ pc = "fetch"
          => \/ /\ pc' = "loop"
                /\ idx' = idx + 1
                /\ Len(opens') <= Len(opens) + 1
                /\ last_op' = << >>
             \/ pc' = "idle" /\ outcome' = "raised"
       /\ pc \in {"loop", "panel", "fetch"}
          => (all_img' = all_img \/ pc' = "idle")
       /\ last_op' = <<"click_thumb">> => pc = "loop"
       /\ (last_op' = <<"find_panel">> /\ pc' # "idle") => pc = "panel"]_vars

C12_Witness ==
    /\ pc = "loop"
    /\ idx = 3
    /\ all_img[1] = AdClass
    /\ fetch_result = "ok"

Rank(p) ==
    CASE p \in {"scroll", "check"} -> 1
      [] p = "enum" -> 2
      [] p \in {"loop", "panel", "fetch"} -> 3
      [] OTHER -> 0

Issued(op, ops) == \E j \in 1..Len(ops) : ops[j] = op

(* C13: the phases of a download() follow one another and never overlap:    *)
(* navigation, then every scroll and load-more click, then the enumeration, *)
(* then the thumbnails; no scroll or load-more click once the thumbnails    *)
(* are being handled; per thumbnail the click, then the panel read, then    *)
(* the fetch, all before the next thumbnail.                                *)
C13_PhasesInOrder ==
    [][/\ (pc # "idle" /\ pc' # "idle") => Rank(pc') >= Rank(pc)
       /\ (pc = "idle" /\ pc' # "idle")
          => pc' = "scroll" /\ last_op'[1] = "get"
                            /\ ~Issued("scroll", last_op')
       /\ (pc # "idle" /\ (Issued("scroll", last_op')
                            \/ Issued("click_more", last_op')
                            \/ Issued("find_more", last_op')))
          => pc \in {"scroll", "check"}
       /\ pc' = "enum" => pc = "check"
       /\ (pc # "idle" /\ Issued("find_thumbs", last_op'))
          => pc = "enum" /\ pc' = "loop"
       /\ (pc # "idle" /\ Issued("click_thumb", last_op'))
          => pc = "loop" /\ pc' = "panel"
       /\ pc' = "panel" => pc = "loop"
       /\ (pc # "idle" /\ Issued("find_panel", last_op')) => pc = "panel"
       /\ pc' = "fetch" => pc = "panel"
       /\ (pc = "fetch" /\ pc' = "loop") => idx' = idx + 1]_vars

C13_Witness ==
    /\ pc = "fetch"
    /\ idx = 2
    /\ Len(opens) = 1
    /\ last_height > 1

(* C14: _scroll looks up and clicks the load-more control only when the     *)
(* height has stabilised and the thumbnails present do not yet exceed       *)
(* n_images; with enough thumbnails it exits without touching the control.  *)
C14_LookupOnlyWhenShort ==
    [][/\ (pc = "check" /\ Issued("find_more", last_op'))
          => new_height = last_height /\ Len(thumbs) <= n_images
       /\ (pc = "check" /\ Len(thumbs) > n_images)
          => /\ ~Issued("find_more", last_op')
             /\ ~Issued("click_more", last_op')
             /\ pc' = "enum"]_vars

(* C15: _scroll scrolls at least once before the thumbnails are enumerated; *)
(* after an iteration that ends with more than n_images thumbnails present  *)
(* there is no further scroll; a count equal to n_images does not stop it.  *)
C15_ScrollLoopExits ==
    [][/\ (pc = "idle" /\ pc' # "idle") => pc' = "scroll"
       /\ (pc = "scroll" /\ pc' # "scroll")
          => pc' = "check" /\ Issued("scroll", last_op')
       /\ pc' = "enum" => pc = "check"
       /\ (pc = "check" /\ Len(thumbs') > n_images) => pc' = "enum"
       /\ (pc = "check" /\ Len(thumbs') = n_images
              /\ (new_height # last_height \/ Issued("click_more", last_op')))
          => pc' = "scroll"]_vars

C15_Witness ==
    /\ pc = "scroll"
    /\ last_op = <<"count_thumbs">>
    /\ Len(thumbs) = n_images

(* C16: the pagination loop always terminates: on a page whose height       *)
(* increases only finitely often, a _scroll that has started eventually     *)
(* exits, whatever the visibility of the load-more control.                 *)
C16_ScrollTerminates ==
    (pc = "scroll") ~> (pc \notin {"scroll", "check"})

(* C17: within one download() call every open-for-write targets a path that *)
(* no earlier open-for-write of the same call targeted, also after a fetch  *)
(* that failed once its file was opened.                                    *)
C17_FreshPathPerOpen ==
    \A i, j \in 1..Len(opens) : i # j => opens[i] # opens[j]

(* C18: verbose affects progress reporting only: the thumbnails a run       *)
(* examines are those the run with the opposite flag would examine on the   *)
(* same page with the same arguments.                                       *)
C18_VerboseOnlyReports ==
    pc \in {"loop", "panel", "fetch"}
        => all_img = shown(thumbs, n_images, ~verbose)

(* C19: after download() returns, the files the call created or truncated   *)
(* are exactly the paths it appended to all_files: a failed fetch leaves no *)
(* unrecorded file.                                                         *)
C19_DiskMatchesRecords ==
    (pc = "idle" /\ outcome = "returned")
        => {opens[i] : i \in 1..Len(opens)}
             = {all_files[i] : i \in (prev_total + 1)..Len(all_files)}

(* C20: in any sequence of download() and close() calls no browser          *)
(* operation is issued on the handle after it was closed, and the handle is *)
(* closed at most once.                                                     *)
C20_NoUseAfterClose == ~op_on_closed

====
